---- MODULE Spec2Model ----
(***************************************************************************)
(* A model of the reading-history scripts of kserickson/zsr.               *)
(*                                                                         *)
(*   scripts/zsr.py         import, cleanup, derived columns, aggregates   *)
(*   scripts/zsr_plots.py   clean_data, the per-year plots, main           *)
(*                                                                         *)
(* A DataFrame is a record [columns, rows]: a set of column names and a    *)
(* sequence of rows, each row a record over the columns.  A CSV cell is a  *)
(* tagged record, so that a missing value (NaN), a number and a text that  *)
(* does not parse stay distinct until the code converts them.              *)
(***************************************************************************)
EXTENDS Integers, Sequences, FiniteSets, TLC

VARIABLES
    pc,             \* the section of the script that runs next
    regexDefault,   \* what the installed pandas takes Series.str.replace's
                    \* regex argument to be when the call does not give it
    csv,            \* the four library exports: library name -> rows
    df_library,     \* zsr.py: the catalog
    df_missing,     \* zsr.py: the rows listed as missing a page length
    df_aggregates,  \* zsr.py: the yearly aggregate table
    df_2022,        \* zsr.py: the books completed in 2022
    raised,         \* the exception that ended the run, "" when none
    sessions,       \* the reading log: one row per reading session
    library_csv,    \* the catalog file zsr_plots.py reads
    dailies_csv,    \* the daily-progress file zsr_plots.py reads
    df_dailies,     \* zsr_plots.py: the daily progress
    years,          \* zsr_plots.py main: the years to plot
    calendar_df,    \* plot_reading_heatmap: the last calendar built
    books_table,    \* plot_books_table: the last table built
    saved,          \* the figures saved so far, in the order of the writes
    disk,           \* the input files that are absent and the figures that
                    \* cannot be written
    run,            \* which script runs, and whether for the first or the
                    \* second time
    first           \* what the first run left, once the second has begun

zsrVars == <<csv, df_missing, df_aggregates, df_2022>>
plotVars == <<sessions, library_csv, dailies_csv, df_dailies, years,
              calendar_df, books_table, saved>>
runVars == <<disk, run, first>>
vars == <<pc, regexDefault, df_library, raised, zsrVars, plotVars, runVars>>

----------------------------------------------------------------------------
(* Bounds of the model.                                                    *)

MaxRows == 2
MaxAggRows == 3
MaxSessions == 2

BSeq(S, n) == UNION {[1..k -> S] : k \in 0..n}

----------------------------------------------------------------------------
(* Calendar arithmetic, as pandas' Timestamp does it (proleptic Gregorian  *)
(* ordinals: day 1 is 0001-01-01).                                         *)

\* Twenty-eight years: every weekday of 1 January, in a year of 365 days and
\* in one of 366
Years == 2021..2048

IsLeap(y) == (y % 4 = 0 /\ y % 100 # 0) \/ y % 400 = 0

DaysInMonth(y, m) ==
    IF m = 2 THEN (IF IsLeap(y) THEN 29 ELSE 28)
    ELSE IF m \in {4, 6, 9, 11} THEN 30 ELSE 31

DaysBeforeYear(y) ==
    LET p == y - 1 IN p * 365 + p \div 4 - p \div 100 + p \div 400

RECURSIVE DaysBeforeMonth(_, _)
DaysBeforeMonth(y, m) ==
    IF m = 1 THEN 0 ELSE DaysBeforeMonth(y, m - 1) + DaysInMonth(y, m - 1)

ToOrdinal(y, m, d) == DaysBeforeYear(y) + DaysBeforeMonth(y, m) + d

\* Timestamp.year
YearOf(ord) ==
    CHOOSE y \in Years : DaysBeforeYear(y) < ord /\ ord <= DaysBeforeYear(y + 1)

ValidYMD(y, m, d) == m \in 1..12 /\ d >= 1 /\ d <= DaysInMonth(y, m)

----------------------------------------------------------------------------
(* Cells.                                                                  *)

\* A date cell of a CSV file: missing, a text of the shape YYYY-MM-DD (whose
\* month and day need not exist in the calendar), or such a text with
\* whitespace before and after it, which read_csv keeps.
NaNDate == [k |-> "nan", y |-> 0, m |-> 0, d |-> 0]
DateText(y, m, d) == [k |-> "txt", y |-> y, m |-> m, d |-> d]
PaddedDate(y, m, d) == [k |-> "pad", y |-> y, m |-> m, d |-> d]

\* A datetime64 value: a Timestamp (its ordinal) or NaT.
NaT == [k |-> "nat", ord |-> 0]
Timestamp(y, m, d) == [k |-> "ts", ord |-> ToOrdinal(y, m, d)]

\* format='%Y-%m-%d' is matched against the whole text
Parses(c) == c.k = "txt" /\ ValidYMD(c.y, c.m, c.d)

\* pd.to_datetime(column, format='%Y-%m-%d', errors='coerce'), one cell
ToDatetimeCoerce(c) == IF Parses(c) THEN Timestamp(c.y, c.m, c.d) ELSE NaT

\* pd.to_datetime(..., errors='raise') raises on a text that does not parse
ToDatetimeRaises(c) == c.k \in {"txt", "pad"} /\ ~Parses(c)

\* A length cell: missing, a number (in tenths of a page, so that 3005 is
\* 300.5) or a text that is no number.
NaNLen == [k |-> "nan", v10 |-> 0]
NumLen(v10) == [k |-> "num", v10 |-> v10]
TxtLen == [k |-> "txt", v10 |-> 0]

\* .fillna(0).astype(int), one cell of a numeric column: truncation to zero
FillnaAsInt(c) ==
    IF c.k = "nan" THEN 0
    ELSE IF c.v10 >= 0 THEN c.v10 \div 10 ELSE -((-c.v10) \div 10)

\* A float: NaN or a number
NaNFloat == [nan |-> TRUE, v |-> 0]
Float(v) == [nan |-> FALSE, v |-> v]

\* A text cell is a sequence of tokens, " " being whitespace; str.strip()
RECURSIVE LStrip(_)
LStrip(s) == IF s # <<>> /\ Head(s) = " " THEN LStrip(Tail(s)) ELSE s
RECURSIVE RStrip(_)
RStrip(s) ==
    IF s # <<>> /\ s[Len(s)] = " " THEN RStrip(SubSeq(s, 1, Len(s) - 1)) ELSE s
Strip(s) == RStrip(LStrip(s))

Completed == <<"Completed">>
InProgress == <<"In progress">>

\* An ISBN cell of a CSV column: missing, digits ("int"), digits followed by
\* ".0" ("float": v holds the digits) or a text that is no number ("txt")
NaNIsbn == [k |-> "nan", v |-> "nan"]
Isbn(kind, v) == [k |-> kind, v |-> v]

\* A missing title
NaNTitle == "<NaN>"

----------------------------------------------------------------------------
(* zsr.py                                                                  *)

Libraries == <<"zsreglau", "kindle", "borrowed", "emeritus">>

DropList == {"item_type", "first_name", "last_name", "description", "group",
             "tags", "notes", "price", "number_of_discs", "number_of_players",
             "age_group", "ensemble", "aspect_ratio", "esrb", "rating",
             "review", "review_date", "copies", "upc_isbn10", "ean_isbn13"}

RawColumns == {"title", "length", "status", "began", "completed",
               "publish_date", "added", "ean_isbn13"}

EmptyFrame == [columns |-> {}, rows |-> <<>>]

\* df['library'] = name
WithLibrary(rows, name) ==
    [i \in 1..Len(rows) |-> [c \in RawColumns \cup {"library"} |->
        IF c = "library" THEN name ELSE rows[i][c]]]

\* pd.concat([...]).reset_index(drop=True)
RECURSIVE ConcatFrom(_, _)
ConcatFrom(files, k) ==
    IF k > Len(Libraries) THEN <<>>
    ELSE WithLibrary(files[Libraries[k]], Libraries[k]) \o ConcatFrom(files, k + 1)

\* pd.read_csv raises FileNotFoundError for a file that is not there
ReadRaises(files) == files \cap disk.absent # {}

Import ==
    /\ pc = "import"
    /\ IF ReadRaises({Libraries[i] : i \in 1..Len(Libraries)})
       THEN /\ raised' = "FileNotFoundError"
            /\ pc' = "aborted"
            /\ UNCHANGED df_library
       ELSE /\ df_library' = [columns |-> RawColumns \cup {"library"},
                              rows |-> ConcatFrom(csv, 1)]
            /\ pc' = "cleanup"
            /\ UNCHANGED raised
    /\ UNCHANGED <<regexDefault, runVars, csv, df_missing, df_aggregates,
                   df_2022, plotVars>>

\* df_library.drop(columns=[...], inplace=True)
DropColumns(df) ==
    [columns |-> df.columns \ DropList,
     rows |-> [i \in 1..Len(df.rows) |->
                  [c \in df.columns \ DropList |-> df.rows[i][c]]]]

\* astype(int) raises ValueError on a text that is no number
CastLengthRaises(df) == \E i \in 1..Len(df.rows) : df.rows[i].length.k = "txt"

\* lines 53-60: the casts, the date parsing and the strip of status
CastTypes(df) ==
    [df EXCEPT !.rows = [i \in 1..Len(df.rows) |->
        [df.rows[i] EXCEPT
            !.length = FillnaAsInt(@),
            !.publish_date = ToDatetimeCoerce(@),
            !.began = ToDatetimeCoerce(@),
            !.completed = ToDatetimeCoerce(@),
            !.added = ToDatetimeCoerce(@),
            !.status = Strip(@)]]]

LengthCorrections == <<
    <<"The Collected Works, Vol. 8", 1251>>,
    <<"Upheavals of Thought: The Intelligence of Emotions", 751>>,
    <<"Political Liberalism", 464>>,
    <<"The Ethnic Origins of Nations", 312>>,
    <<"Montesquieu And Rousseau: Forerunners Of Sociology", 155>>,
    <<"Truth and Method. Second, Revised Edition.", 594>>,
    <<"The Last Unicorn (Deluxe Edition)", 289>>,
    <<"The Dream Machine", 527>>,
    <<"The Revolt of the Public", 448>>,
    <<"The Art of Doing Science and Engineering", 432>>,
    <<"August", 304>>,
    <<"American Poetry: The Nineteenth Century. Volumes I &amp; II. [2 volumes. Vol. 1: Philip Freneau to Walt Whitman. Vol. 2: Herman Melville to Stickney; American Indian Poetry; Folk Songs and Spirituals]", 1050>>,
    <<"American Earth: Environmental Writing Since Thoreau", 1047>>,
    <<"Harry Potter and the Order of the Phoenix", 896>>,
    <<"In the Shadow of Tomorrow", 167>>,
    <<"Pieces of the Action", 376>>,
    <<"Kenogaia (a Gnostic Tale)", 432>>,
    <<"The Org: How The Office Really Works", 320>>,
    <<"Grand Hotel Abyss", 336>>,
    <<"We Have Never Been Modern", 157>>,
    <<"Snow", 320>>,
    <<"Courage to Grow", 224>>,
    <<"In Praise of Older Women The Amorous Recollections of Andras Vajda by Vizinczey, Stephen ( Author ) ON Mar-04-2010, Paperback", 181>>,
    <<"The Collected Works of John Stuart Mill, Vol. 7", 1251>>,
    <<"Game Theory: A Very Short Introduction (Very Short Introductions) By Ken Binmore", 184>>,
    <<"Applied Mainline Economics", 167>>,
    <<"Introduction to IT Privacy", 271>>,
    <<"The Hobbit", 317>> >>

\* A slip of the assignment: only a length that is missing is set
SetLengthIfMissing(rows, t, l) ==
    [i \in 1..Len(rows) |->
        IF rows[i].title = t /\ rows[i].length = 0
        THEN [rows[i] EXCEPT !.length = l] ELSE rows[i]]

\* df_library.loc[df_library['title'] == t, 'length'] = l
SetLength(rows, t, l) ==
    [i \in 1..Len(rows) |->
        IF rows[i].title = t THEN [rows[i] EXCEPT !.length = l] ELSE rows[i]]

\* lines 63-90, one statement after the other
RECURSIVE ApplyFrom(_, _)
ApplyFrom(rows, k) ==
    IF k > Len(LengthCorrections) THEN rows
    ELSE ApplyFrom(SetLength(rows, LengthCorrections[k][1],
                             LengthCorrections[k][2]), k + 1)

ApplyCorrections(df) == [df EXCEPT !.rows = ApplyFrom(df.rows, 1)]

\* A slip of the test for a missing length: any length below 1
IsNoLength(r) == r.length < 1

\* df_library[(df_library['length'] == 0)]
IsMissingLength(r) == r.length = 0
MissingRows(df) == [df EXCEPT !.rows = SelectSeq(df.rows, IsMissingLength)]

Cleanup ==
    /\ pc = "cleanup"
    /\ LET dropped == DropColumns(df_library) IN
       IF CastLengthRaises(dropped)
       THEN /\ df_library' = dropped
            /\ raised' = "ValueError"
            /\ pc' = "aborted"
            /\ UNCHANGED df_missing
       ELSE LET fixed == ApplyCorrections(CastTypes(dropped)) IN
            /\ df_library' = fixed
            /\ df_missing' = MissingRows(fixed)
            /\ pc' = "derive"
            /\ UNCHANGED raised
    /\ UNCHANGED <<regexDefault, runVars, csv, df_aggregates, df_2022, plotVars>>

\* Two slips of the duration: the difference without the day added, and a
\* missing date counted as no days at all
DaysNotPlusOne(r) ==
    IF r.completed.k = "ts" /\ r.began.k = "ts"
    THEN [nan |-> FALSE, v |-> r.completed.ord - r.began.ord]
    ELSE [nan |-> TRUE, v |-> 0]

DaysPlusOneOfNoDays(r) ==
    IF r.completed.k = "ts" /\ r.began.k = "ts"
    THEN [nan |-> FALSE, v |-> r.completed.ord - r.began.ord + 1]
    ELSE [nan |-> FALSE, v |-> 1]

\* (completed - began).apply(lambda x: x.days + 1): NaT.days is NaN
DaysPlusOne(r) ==
    IF r.completed.k = "ts" /\ r.began.k = "ts"
    THEN Float(r.completed.ord - r.began.ord + 1)
    ELSE NaNFloat

\* .round().fillna(0).astype(int)
RoundFillnaAsInt(f) == IF f.nan THEN 0 ELSE f.v

DurationOf(r) == RoundFillnaAsInt(DaysPlusOne(r))

\* The text of a year: "2022", "2022.0" (frac) or "nan"
NanYear == [nan |-> TRUE, year |-> 0, frac |-> FALSE]
YearText(y, frac) == [nan |-> FALSE, year |-> y, frac |-> frac]

\* completed.apply(lambda x: x.year).astype(str): NaT.year is NaN, and one NaN
\* makes the whole column float
YearAsStr(r, anyNaT) ==
    IF r.completed.k = "ts" THEN YearText(YearOf(r.completed.ord), anyNaT)
    ELSE NanYear

\* .str.replace(r'\.0$', ''): a regular expression only where the installed
\* pandas takes it as one; as a literal the pattern occurs in no year text
ReplaceDotZero(t, regex) == IF regex /\ t.frac THEN [t EXCEPT !.frac = FALSE] ELSE t

WithDerived(df, regex) ==
    LET anyNaT == \E i \in 1..Len(df.rows) : df.rows[i].completed.k = "nat" IN
    [columns |-> df.columns \cup {"duration", "year_completed"},
     rows |-> [i \in 1..Len(df.rows) |->
        [c \in df.columns \cup {"duration", "year_completed"} |->
            IF c = "duration" THEN DurationOf(df.rows[i])
            ELSE IF c = "year_completed"
                 THEN ReplaceDotZero(YearAsStr(df.rows[i], anyNaT), regex)
            ELSE df.rows[i][c]]]]

Derive ==
    /\ pc = "derive"
    /\ df_library' = WithDerived(df_library, regexDefault)
    /\ pc' = "aggregate"
    /\ UNCHANGED <<regexDefault, runVars, csv, df_missing, df_aggregates,
                   df_2022, raised, plotVars>>

\* A slip of the rounding: the decimals past the second cut off
Cut2(n, d) == (100 * n) \div d

\* round(n / d, 2) in hundredths, d > 0: to the nearest, a tie to the even one
\* (a mean of fewer than eight integers never ties, nor does a sum over 12, 52
\* or 365)
Round2(n, d) ==
    LET q == (100 * n) \div d
        r == 100 * n - q * d
    IN IF 2 * r < d THEN q
       ELSE IF 2 * r > d THEN q + 1
       ELSE IF q % 2 = 0 THEN q ELSE q + 1

RECURSIVE SumOf(_, _)
SumOf(rows, col) ==
    IF rows = <<>> THEN 0 ELSE Head(rows)[col] + SumOf(Tail(rows), col)

\* A slip of the filter: the rows without a year kept
IsCompletedAnyYear(r) == r.status = <<"Completed">>

\* (status == "Completed") & (year_completed != "nan")
IsCompleted(r) == r.status = <<"Completed">> /\ ~r.year_completed.nan

\* The order of the year texts: "2022" < "2022.0" < "2023"
KeyLess(a, b) == a.year < b.year \/ (a.year = b.year /\ ~a.frac /\ b.frac)

\* groupby sorts its keys
RECURSIVE SortKeys(_)
SortKeys(S) ==
    IF S = {} THEN <<>>
    ELSE LET k == CHOOSE x \in S : \A y \in S \ {x} : KeyLess(x, y)
         IN <<k>> \o SortKeys(S \ {k})

\* The aggregates of one group; the float columns are held in hundredths,
\* which is what the rounding to two decimals keeps of them
AggRow(key, rows) ==
    LET InGroup(r) == r.year_completed = key
        g == SelectSeq(rows, InGroup)
        sum == SumOf(g, "length")
    IN [year_completed |-> key,
        count |-> Len(g),
        sum_length |-> sum,
        avg_length |-> Round2(sum, Len(g)),
        avg_duration |-> Round2(SumOf(g, "duration"), Len(g)),
        length_per_month |-> Round2(sum, 12),
        length_per_week |-> Round2(sum, 52),
        length_per_day |-> Round2(sum, 365)]

\* lines 113-125
Aggregates(df) ==
    LET df_completed == SelectSeq(df.rows, IsCompleted)
        keys == SortKeys({df_completed[i].year_completed :
                              i \in 1..Len(df_completed)})
    IN [i \in 1..Len(keys) |-> AggRow(keys[i], df_completed)]

\* sort_values(by='completed', ascending=False): later first; the rows all
\* have a completed date
RECURSIVE SortByCompleted(_)
SortByCompleted(rows) ==
    IF rows = <<>> THEN <<>>
    ELSE LET k == CHOOSE i \in 1..Len(rows) :
                    /\ \A j \in 1..Len(rows) :
                          rows[j].completed.ord <= rows[i].completed.ord
                    /\ \A j \in 1..(i - 1) :
                          rows[j].completed.ord < rows[i].completed.ord
         IN <<rows[k]>> \o SortByCompleted(SubSeq(rows, 1, k - 1)
                                            \o SubSeq(rows, k + 1, Len(rows)))

\* line 132: (status == "Completed") & (year_completed == "2022")
Books2022(df) ==
    LET In2022(r) == r.status = <<"Completed">>
                      /\ r.year_completed = YearText(2022, FALSE)
    IN SortByCompleted(SelectSeq(df.rows, In2022))

Aggregate ==
    /\ pc = "aggregate"
    /\ df_aggregates' = Aggregates(df_library)
    /\ df_2022' = Books2022(df_library)
    /\ pc' = "agg_table"
    /\ UNCHANGED <<regexDefault, runVars, csv, df_library, df_missing, raised, plotVars>>

\* plt.savefig(path, ...) raises OSError where the file cannot be written;
\* nothing in the scripts catches it
SavefigRaises(name) == name \in disk.unwritable

\* lines 136-192: the table of the aggregates, saved as agg_books_by_year.png
PlotAggregatesTable ==
    /\ pc = "agg_table"
    /\ IF SavefigRaises("agg_books_by_year")
       THEN /\ raised' = "OSError"
            /\ pc' = "aborted"
            /\ UNCHANGED saved
       ELSE /\ saved' = Append(saved, <<"agg_books_by_year">>)
            /\ pc' = "table_2022"
            /\ UNCHANGED raised
    /\ UNCHANGED <<regexDefault, runVars, df_library, zsrVars, sessions,
                   library_csv, dailies_csv, df_dailies, years, calendar_df,
                   books_table>>

\* lines 195-251: the table of df_2022, saved as 2022books.png
Plot2022Table ==
    /\ pc = "table_2022"
    /\ IF SavefigRaises("2022books")
       THEN /\ raised' = "OSError"
            /\ pc' = "aborted"
            /\ UNCHANGED saved
       ELSE /\ saved' = Append(saved, <<"2022books">>)
            /\ pc' = "done"
            /\ UNCHANGED raised
    /\ UNCHANGED <<regexDefault, runVars, df_library, zsrVars, sessions,
                   library_csv, dailies_csv, df_dailies, years, calendar_df,
                   books_table>>

----------------------------------------------------------------------------
(* The daily progress: the catalog joined to the reading log, with a row   *)
(* for every day.  The script that builds it is not among the sources; it  *)
(* is modelled from its specification.                                     *)

\* A Timestamp written as YYYY-MM-DD
MonthOf(y, n) ==
    CHOOSE m \in 1..12 :
        DaysBeforeMonth(y, m) < n /\ n <= DaysBeforeMonth(y, m) + DaysInMonth(y, m)

FromOrdinal(ord) ==
    LET y == YearOf(ord)
        n == ord - DaysBeforeYear(y)
        m == MonthOf(y, n)
    IN DateText(y, m, n - DaysBeforeMonth(y, m))

\* The catalog rows of a session: by ISBN where both have one, else by title
Matches(s, catalog) ==
    LET ByIsbn(c) == /\ s.ean_isbn13.k # "nan"
                     /\ c.ean_isbn13.k # "nan"
                     /\ c.ean_isbn13.v = s.ean_isbn13.v
        ByTitle(c) == c.title = s.title
        m == SelectSeq(catalog, ByIsbn)
    IN IF m # <<>> THEN m ELSE SelectSeq(catalog, ByTitle)

\* end_page / length * 100 rounded to two decimals (in hundredths), 0 for a
\* book without a length
PercentComplete(end_page, length) ==
    IF length = 0 THEN 0 ELSE Round2(100 * end_page, length)

IsRead(c) == c.status \in {Completed, InProgress}

RECURSIVE Joined(_, _)
Joined(ss, catalog) ==
    IF ss = <<>> THEN <<>>
    ELSE LET s == Head(ss)
             m == SelectSeq(Matches(s, catalog), IsRead)
         IN [i \in 1..Len(m) |->
                [date |-> ToOrdinal(s.date.y, s.date.m, s.date.d),
                 title |-> s.title,
                 ean_isbn13 |-> s.ean_isbn13,
                 daily_pages |-> s.end_page - s.start_page,
                 percent_complete |-> PercentComplete(s.end_page, m[i].length),
                 length |-> m[i].length]]
            \o Joined(Tail(ss), catalog)

GapRow(d) ==
    [date |-> d, title |-> NaNTitle, ean_isbn13 |-> NaNIsbn,
     daily_pages |-> 0, percent_complete |-> 0, length |-> 0]

\* The rows of the days d .. last, a gap row for a day without one (the range
\* is halved, not walked day by day)
RECURSIVE FillFrom(_, _, _)
FillFrom(rows, d, last) ==
    IF d > last THEN <<>>
    ELSE IF d = last
    THEN LET On(r) == r.date = d
             day == SelectSeq(rows, On)
         IN IF day = <<>> THEN <<GapRow(d)>> ELSE day
    ELSE LET mid == (d + last) \div 2
         IN FillFrom(rows, d, mid) \o FillFrom(rows, mid + 1, last)

GapFill(rows) ==
    IF rows = <<>> THEN <<>>
    ELSE LET ds == {rows[i].date : i \in 1..Len(rows)}
             lo == CHOOSE d \in ds : \A e \in ds : d <= e
             hi == CHOOSE d \in ds : \A e \in ds : e <= d
         IN FillFrom(rows, lo, hi)

DailyProgress(ss, catalog) ==
    LET rows == GapFill(Joined(ss, catalog))
    IN [i \in 1..Len(rows) |-> [rows[i] EXCEPT !.date = FromOrdinal(@)]]

BuildDailyProgress ==
    /\ pc = "build"
    /\ dailies_csv' = DailyProgress(sessions, library_csv)
    /\ pc' = "main"
    /\ UNCHANGED <<regexDefault, runVars, df_library, raised, zsrVars, sessions,
                   library_csv, df_dailies, years, calendar_df, books_table,
                   saved>>

----------------------------------------------------------------------------
(* zsr_plots.py                                                            *)

PaletteSize == 6

LibraryColumns == {"title", "ean_isbn13", "length", "status", "began",
                   "completed"}
DailyColumns == {"date", "title", "ean_isbn13", "daily_pages",
                 "percent_complete", "length"}

\* main, lines 330-331
MainRead ==
    /\ pc = "main"
    /\ IF ReadRaises({"dailies", "library"})
       THEN /\ raised' = "FileNotFoundError"
            /\ pc' = "aborted"
            /\ UNCHANGED <<df_dailies, df_library>>
       ELSE /\ df_dailies' = [columns |-> DailyColumns, rows |-> dailies_csv]
            /\ df_library' = [columns |-> LibraryColumns, rows |-> library_csv]
            /\ pc' = "clean"
            /\ UNCHANGED raised
    /\ UNCHANGED <<regexDefault, runVars, zsrVars, sessions, library_csv,
                   dailies_csv, years, calendar_df, books_table, saved>>

\* The dtype read_csv gives the ISBN column: object with a text in it, else
\* float64 with a missing value or a fraction in it, else int64
IsbnDtype(rows) ==
    IF \E i \in 1..Len(rows) : rows[i].ean_isbn13.k = "txt" THEN "object"
    ELSE IF \E i \in 1..Len(rows) : rows[i].ean_isbn13.k \in {"nan", "float"}
         THEN "float64" ELSE "int64"

\* .astype(str), one cell: the text as a sequence of tokens
AsStr(c, dtype) ==
    IF c.k = "nan" THEN <<"nan">>
    ELSE IF dtype = "float64" \/ (dtype = "object" /\ c.k = "float")
         THEN <<c.v, ".0">>
         ELSE <<c.v>>

\* .str.replace(r'\.0$', '', regex=True)
StripDotZero(t) ==
    IF Len(t) > 1 /\ t[Len(t)] = ".0" THEN SubSeq(t, 1, Len(t) - 1) ELSE t

IsbnText(rows, i) == StripDotZero(AsStr(rows[i].ean_isbn13, IsbnDtype(rows)))

\* clean_data, lines 55-58
CleanTexts(df) ==
    [df EXCEPT !.rows = [i \in 1..Len(df.rows) |->
        [df.rows[i] EXCEPT
            !.ean_isbn13 = IsbnText(df.rows, i),
            !.title = IF @ = NaNTitle THEN "" ELSE @]]]

\* clean_data, lines 59-60
CleanDatesRaises(df) ==
    \E i \in 1..Len(df.rows) :
        ToDatetimeRaises(df.rows[i].began) \/ ToDatetimeRaises(df.rows[i].completed)

CleanData ==
    /\ pc = "clean"
    /\ IF CleanDatesRaises(df_library)
       THEN /\ df_library' = CleanTexts(df_library)
            /\ df_dailies' = CleanTexts(df_dailies)
            /\ raised' = "ValueError"
            /\ pc' = "aborted"
       ELSE /\ df_library' =
                [df_library EXCEPT !.rows = [i \in 1..Len(df_library.rows) |->
                    [CleanTexts(df_library).rows[i] EXCEPT
                        !.began = ToDatetimeCoerce(@),
                        !.completed = ToDatetimeCoerce(@)]]]
            /\ df_dailies' =
                [df_dailies EXCEPT !.rows = [i \in 1..Len(df_dailies.rows) |->
                    [CleanTexts(df_dailies).rows[i] EXCEPT
                        !.date = ToDatetimeCoerce(@)]]]
            /\ pc' = "years"
            /\ UNCHANGED raised
    /\ UNCHANGED <<regexDefault, runVars, zsrVars, sessions, library_csv, dailies_csv,
                   years, calendar_df, books_table, saved>>

\* Series.unique(): the values in the order of their first appearance
Unique(s) ==
    LET firsts == {i \in 1..Len(s) : \A j \in 1..(i - 1) : s[j] # s[i]}
    IN [k \in 1..Cardinality(firsts) |->
           s[CHOOSE i \in firsts : Cardinality({j \in firsts : j < i}) = k - 1]]

\* df_dailies['date'].dt.year.unique(); years holds the years still to plot
FindYears ==
    /\ pc = "years"
    /\ years' = Unique([i \in 1..Len(df_dailies.rows) |->
                            YearOf(df_dailies.rows[i].date.ord)])
    /\ pc' = IF years' = <<>> THEN "plotted" ELSE "overlay"
    /\ UNCHANGED <<regexDefault, runVars, df_library, raised, zsrVars, sessions,
                   library_csv, dailies_csv, df_dailies, calendar_df,
                   books_table, saved>>

InYear(r, year) == YearOf(r.date.ord) = year

\* A slip of the name: every figure saved gets a number of its own
FileNameNumbered(kind, year, log) == <<kind, year, Len(log)>>

\* f'overlay-chart-{year}.png' and the like: the name of a figure does not
\* depend on what was saved before
FileName(kind, year, log) == <<kind, year>>

\* plot_stacked_bar_and_line_charts and save_plot
PlotOverlay ==
    /\ pc = "overlay"
    /\ IF SavefigRaises("overlay-chart")
       THEN /\ raised' = "OSError"
            /\ pc' = "aborted"
            /\ UNCHANGED saved
       ELSE /\ saved' = Append(saved, FileName("overlay-chart", Head(years), saved))
            /\ pc' = "heatmap"
            /\ UNCHANGED raised
    /\ UNCHANGED <<regexDefault, runVars, df_library, zsrVars, sessions,
                   library_csv, dailies_csv, df_dailies, years, calendar_df,
                   books_table>>

\* date.weekday(): Monday is 0
Weekday(ord) == (ord + 6) % 7

\* A slip of the merge: only the dates that have a reading row
MergeInner(dates, rows) ==
    LET Has(d) == \E i \in 1..Len(rows) : rows[i].date.ord = d
        had == SelectSeq(dates, Has)
    IN [i \in 1..Len(had) |->
          LET On(r) == r.date.ord = had[i]
          IN [date |-> had[i],
              daily_pages |-> SumOf(SelectSeq(rows, On), "daily_pages")]]

\* calendar_df.merge(daily_data, how='left', on='date').fillna(0), daily_data
\* being the sum of daily_pages by date
MergeLeft(dates, rows) ==
    [i \in 1..Len(dates) |->
        LET On(r) == r.date.ord = dates[i]
        IN [date |-> dates[i],
            daily_pages |-> SumOf(SelectSeq(rows, On), "daily_pages")]]

\* A slip of first_monday: the first Monday of the year, not stepped back
FirstMondayOfYear(year) ==
    LET start_date == ToOrdinal(year, 1, 1)
    IN CHOOSE d \in start_date..(start_date + 6) : Weekday(d) = 0

\* lines 152-154: the first Monday of the year, a week earlier when it is
\* after 1 January
first_monday(year) ==
    LET start_date == ToOrdinal(year, 1, 1)
        end_date == ToOrdinal(year, 12, 31)
        mondays == {d \in start_date..end_date : Weekday(d) = 0}
        monday == CHOOSE d \in mondays : \A e \in mondays : d <= e
    IN IF monday > start_date THEN monday - 7 ELSE monday

\* plot_reading_heatmap, lines 135-158
HeatmapCalendar(df, year) ==
    LET start_date == ToOrdinal(year, 1, 1)
        end_date == ToOrdinal(year, 12, 31)
        Of(r) == InYear(r, year)
        all_dates == [i \in 1..(end_date - start_date + 1) |-> start_date + i - 1]
        merged == MergeLeft(all_dates, SelectSeq(df.rows, Of))
        monday == first_monday(year)
    IN [i \in 1..Len(merged) |->
          [date |-> merged[i].date,
           daily_pages |-> merged[i].daily_pages,
           week |-> (merged[i].date - monday) \div 7 + 1,
           day |-> Weekday(merged[i].date)]]

PlotHeatmap ==
    /\ pc = "heatmap"
    /\ calendar_df' = HeatmapCalendar(df_dailies, Head(years))
    /\ IF SavefigRaises("daily-pages")
       THEN /\ raised' = "OSError"
            /\ pc' = "aborted"
            /\ UNCHANGED saved
       ELSE /\ saved' = Append(saved, FileName("daily-pages", Head(years), saved))
            /\ pc' = "books"
            /\ UNCHANGED raised
    /\ UNCHANGED <<regexDefault, runVars, df_library, zsrVars, sessions,
                   library_csv, dailies_csv, df_dailies, years, books_table>>

\* sort_values(by='began', ascending=False): later first, NaT last
RECURSIVE SortByBegan(_)
SortByBegan(rows) ==
    IF rows = <<>> THEN <<>>
    ELSE LET Before(a, b) == a.began.k = "ts" /\ (b.began.k = "nat" \/ a.began.ord > b.began.ord)
             k == CHOOSE i \in 1..Len(rows) :
                    /\ \A j \in 1..Len(rows) : ~Before(rows[j], rows[i])
                    /\ \A j \in 1..(i - 1) : Before(rows[i], rows[j])
         IN <<rows[k]>> \o SortByBegan(SubSeq(rows, 1, k - 1)
                                        \o SubSeq(rows, k + 1, Len(rows)))

\* groupby('ean_isbn13')['percent_complete'].last(), merged on the ISBN, then
\* .fillna(0).apply(int): whole percents
PercentOf(dailies, isbn) ==
    LET Same(r) == r.ean_isbn13 = isbn
        g == SelectSeq(dailies, Same)
    IN IF g = <<>> THEN 0 ELSE g[Len(g)].percent_complete \div 100

\* int(completion * (len(palette) - 1)), completion the percent / 100
ColorIndex(percent) == (percent * (PaletteSize - 1)) \div 100

\* A list of n takes the indices -n .. n-1
ValidIndex(k) == k >= -PaletteSize /\ k < PaletteSize

\* plot_books_table, lines 201-210 and the colour of line 244
BooksTable(lib, dailies, year) ==
    LET ReadIn(r) == r.title \in {dailies.rows[i].title :
                         i \in {j \in 1..Len(dailies.rows) :
                                    InYear(dailies.rows[j], year)}}
                     /\ r.status \in {Completed, InProgress}
        df == SortByBegan(SelectSeq(lib.rows, ReadIn))
    IN [i \in 1..Len(df) |->
          LET p == PercentOf(dailies.rows, df[i].ean_isbn13)
          IN [title |-> df[i].title, percent_complete |-> p,
              color |-> ColorIndex(p)]]

PlotBooksTable ==
    /\ pc = "books"
    /\ books_table' = BooksTable(df_library, df_dailies, Head(years))
    /\ IF \E i \in 1..Len(books_table') : ~ValidIndex(books_table'[i].color)
       THEN /\ raised' = "IndexError"
            /\ pc' = "aborted"
            /\ UNCHANGED <<saved, years>>
       ELSE IF SavefigRaises("books-table")
       THEN /\ raised' = "OSError"
            /\ pc' = "aborted"
            /\ UNCHANGED <<saved, years>>
       ELSE /\ saved' = Append(saved, FileName("books-table", Head(years), saved))
            /\ years' = Tail(years)
            /\ pc' = IF years' = <<>> THEN "plotted" ELSE "overlay"
            /\ UNCHANGED raised
    /\ UNCHANGED <<regexDefault, runVars, df_library, zsrVars, sessions, library_csv,
                   dailies_csv, df_dailies, calendar_df>>

\* main()
NextMain ==
    \/ MainRead \/ CleanData \/ FindYears
    \/ PlotOverlay \/ PlotHeatmap \/ PlotBooksTable

NextPlots == BuildDailyProgress \/ NextMain

----------------------------------------------------------------------------
(* The runs of zsr.py.  The exports are the input: up to n rows, drawn from *)
(* a set of rows, in the first libraries' files.                           *)

\* Every input file there, every figure writable
SoundDisk == [absent |-> {}, unwritable |-> {}]

FirstRun(script) == [n |-> 1, script |-> script]
NoRun == <<>>

\* The export gives "The Hobbit" its ISBN and the other titles none, which
\* makes the ISBNs of the file fractions
IsbnOf(title) ==
    IF title = "The Hobbit" THEN Isbn("float", "9780261102217") ELSE NaNIsbn

RowsOf(titles, lengths, statuses, begans, completeds, others) ==
    {[r EXCEPT !.ean_isbn13 = IsbnOf(r.title)] :
        r \in [title : titles, length : lengths, status : statuses,
               began : begans, completed : completeds, publish_date : others,
               added : others, ean_isbn13 : {NaNIsbn}]}

\* The first k rows in library a's file, the rest in library b's
FilesOf(s, k, a, b) ==
    [l \in {Libraries[i] : i \in 1..Len(Libraries)} |->
        IF l = a THEN SubSeq(s, 1, k)
        ELSE IF l = b THEN SubSeq(s, k + 1, Len(s)) ELSE <<>>]

InitZsrOn(rowset, n, a, b, disks) ==
    /\ pc = "import"
    /\ regexDefault \in BOOLEAN
    /\ \E s \in BSeq(rowset, n) : \E k \in 0..Len(s) : csv = FilesOf(s, k, a, b)
    /\ df_library = EmptyFrame
    /\ df_missing = EmptyFrame
    /\ df_aggregates = <<>>
    /\ df_2022 = <<>>
    /\ raised = ""
    /\ disk \in disks
    /\ run = FirstRun("zsr")
    /\ first = NoRun
    /\ sessions = <<>>
    /\ library_csv = <<>>
    /\ dailies_csv = <<>>
    /\ df_dailies = EmptyFrame
    /\ years = <<>>
    /\ calendar_df = <<>>
    /\ books_table = <<>>
    /\ saved = <<>>

InitZsr(rowset, n, a, b) == InitZsrOn(rowset, n, a, b, {SoundDisk})

NextZsr ==
    \/ Import \/ Cleanup \/ Derive \/ Aggregate
    \/ PlotAggregatesTable \/ Plot2022Table

\* Dates around the end of a year and a leap day, completed before, on and
\* after began; 2023-02-29 is no date
DurRows ==
    RowsOf({"Dune"}, {NumLen(3000)}, {Completed},
           {NaNDate, DateText(2023, 12, 31), DateText(2024, 2, 28),
            DateText(2023, 2, 29)},
           {NaNDate, DateText(2023, 12, 30), DateText(2024, 2, 28),
            DateText(2024, 3, 1), DateText(2023, 2, 29)},
           {NaNDate})

InitDur == InitZsr(DurRows, MaxRows, "zsreglau", "kindle")
SpecDur == InitDur /\ [][NextZsr]_vars

\* Titles with and without a correction, lengths missing, zero, fractional,
\* negative and no number at all
LenRows ==
    RowsOf({"The Hobbit", "the hobbit", "Dune"},
           {NaNLen, NumLen(0), NumLen(3005), NumLen(-50), TxtLen},
           {Completed}, {DateText(2023, 12, 31)}, {DateText(2024, 3, 1)},
           {NaNDate})

InitLen == InitZsr(LenRows, MaxRows, "zsreglau", "emeritus")
SpecLen == InitLen /\ [][NextZsr]_vars

\* Books of two lengths, completed in 2022, in 2023 or not at all
AggRows ==
    RowsOf({"Dune"}, {NumLen(3000), NumLen(3010)}, {Completed, InProgress},
           {DateText(2023, 1, 1)},
           {NaNDate, DateText(2022, 12, 31), DateText(2023, 1, 10)},
           {NaNDate})

InitAgg == InitZsr(AggRows, MaxAggRows, "kindle", "borrowed")
SpecAgg == InitAgg /\ [][NextZsr]_vars

\* A status and dates as typed, or with whitespace around them
TrimRows ==
    RowsOf({"Dune"}, {NumLen(3000)}, {Completed, <<" ", "Completed", " ">>},
           {DateText(2023, 1, 1), PaddedDate(2023, 1, 1)},
           {DateText(2023, 1, 10), PaddedDate(2023, 1, 10)},
           {NaNDate})

InitTrim == InitZsr(TrimRows, MaxRows, "zsreglau", "borrowed")
SpecTrim == InitTrim /\ [][NextZsr]_vars

----------------------------------------------------------------------------
(* The runs of zsr_plots.py: a catalog of one or two books and a reading   *)
(* log of up to n sessions, from which the daily progress is built.        *)

HobbitIsbn == Isbn("int", "9780261102217")

\* "The Hobbit": with or without a length, read or abandoned, with a began
\* that is a date or none (2023-02-29)
HobbitRows ==
    [title : {"The Hobbit"}, ean_isbn13 : {HobbitIsbn}, length : {0, 300},
     status : {Completed, <<"Abandoned">>},
     began : {DateText(2023, 12, 30), DateText(2023, 2, 29)},
     completed : {NaNDate}]

\* "Dune": in progress, without an ISBN
DuneRow ==
    [title |-> "Dune", ean_isbn13 |-> NaNIsbn, length |-> 200,
     status |-> InProgress, began |-> DateText(2024, 1, 1),
     completed |-> NaNDate]

\* Sessions at the end of 2023 and the start of 2024, up to a page within
\* the book's length or past it
SessionRows ==
    [date : {DateText(2023, 12, 30), DateText(2024, 1, 2)},
     title : {"The Hobbit"}, ean_isbn13 : {HobbitIsbn, NaNIsbn},
     start_page : {100}, end_page : {150, 360}]
    \cup
    [date : {DateText(2023, 12, 30), DateText(2024, 1, 2)},
     title : {"Dune"}, ean_isbn13 : {NaNIsbn},
     start_page : {100}, end_page : {150, 360}]

\* zsr_plots.py gives regex=True in each of its calls
InitPlotsOn(start, logs, catalogs, dailies, disks) ==
    /\ pc = start
    /\ regexDefault = FALSE
    /\ csv = [l \in {Libraries[i] : i \in 1..Len(Libraries)} |-> <<>>]
    /\ df_library = EmptyFrame
    /\ df_missing = EmptyFrame
    /\ df_aggregates = <<>>
    /\ df_2022 = <<>>
    /\ raised = ""
    /\ disk \in disks
    /\ run = FirstRun("zsr_plots")
    /\ first = NoRun
    /\ sessions \in logs
    /\ library_csv \in catalogs
    /\ dailies_csv \in dailies
    /\ df_dailies = EmptyFrame
    /\ years = <<>>
    /\ calendar_df = <<>>
    /\ books_table = <<>>
    /\ saved = <<>>

\* The runs that begin with the building of the daily progress
InitPlotsOf(logs, catalogs) ==
    InitPlotsOn("build", logs, catalogs, {<<>>}, {SoundDisk})

InitPlots ==
    InitPlotsOf(BSeq(SessionRows, MaxSessions),
                UNION {{<<h>>, <<h, DuneRow>>} : h \in HobbitRows})
SpecPlots == InitPlots /\ [][NextPlots]_vars

\* The runs that draw the heat map of one year: "The Hobbit" read on the
\* first day of the year, on the last, or on both
HobbitRead ==
    [title |-> "The Hobbit", ean_isbn13 |-> HobbitIsbn, length |-> 300,
     status |-> Completed, began |-> DateText(2023, 12, 30),
     completed |-> NaNDate]

SessionOn(y, m, d) ==
    [date |-> DateText(y, m, d), title |-> "The Hobbit",
     ean_isbn13 |-> HobbitIsbn, start_page |-> 100, end_page |-> 150]

InitHeat ==
    InitPlotsOf(UNION {{<<SessionOn(y, 1, 1)>>, <<SessionOn(y, 12, 31)>>,
                        <<SessionOn(y, 1, 1), SessionOn(y, 12, 31)>>} :
                           y \in Years},
                {<<HobbitRead>>})
SpecHeat == InitHeat /\ [][NextPlots]_vars

----------------------------------------------------------------------------
(* The scripts run twice on the same files, on a disk where an input file  *)
(* may be absent and a figure may fail to be written.                      *)

Ended == {"done", "plotted", "aborted"}

\* The figures on the disk: a file written again replaces the one of its name
Files == {saved[i] : i \in 1..Len(saved)}

\* What a run leaves when it ends
Outputs ==
    [ended |-> pc, raised |-> raised, df_library |-> df_library,
     df_missing |-> df_missing, df_aggregates |-> df_aggregates,
     df_2022 |-> df_2022, df_dailies |-> df_dailies,
     calendar_df |-> calendar_df, books_table |-> books_table,
     files |-> Files]

\* The script is started again: a new process, with nothing in memory, the
\* same files to read and the figures of the first run on the disk
Rerun ==
    /\ run.n = 1
    /\ pc \in Ended
    /\ first' = [outputs |-> Outputs, writes |-> Len(saved)]
    /\ run' = [run EXCEPT !.n = 2]
    /\ pc' = IF run.script = "zsr" THEN "import" ELSE "main"
    /\ df_library' = EmptyFrame
    /\ df_missing' = EmptyFrame
    /\ df_aggregates' = <<>>
    /\ df_2022' = <<>>
    /\ raised' = ""
    /\ df_dailies' = EmptyFrame
    /\ years' = <<>>
    /\ calendar_df' = <<>>
    /\ books_table' = <<>>
    /\ UNCHANGED <<regexDefault, disk, csv, sessions, library_csv,
                   dailies_csv, saved>>

\* Books completed in 2022 or not yet, with a began that is a date or none
IORows ==
    RowsOf({"Dune"}, {NumLen(3000)}, {Completed},
           {DateText(2022, 1, 1), DateText(2023, 2, 29)},
           {NaNDate, DateText(2022, 1, 10)},
           {NaNDate})

ZsrDisks ==
    [absent : SUBSET {"kindle"},
     unwritable : SUBSET {"agg_books_by_year", "2022books"}]

\* The catalog and the daily progress zsr_plots.py is given
HobbitBadBegan == [HobbitRead EXCEPT !.began = DateText(2023, 2, 29)]

DailyRow(y, m, d, percent) ==
    [date |-> DateText(y, m, d), title |-> "The Hobbit",
     ean_isbn13 |-> HobbitIsbn, daily_pages |-> 50,
     percent_complete |-> percent, length |-> 300]

PlotDisks ==
    [absent : SUBSET {"library"},
     unwritable : SUBSET {"daily-pages", "books-table"}]

InitIO ==
    \/ InitZsrOn(IORows, MaxRows, "zsreglau", "kindle", ZsrDisks)
    \/ InitPlotsOn("main", {<<>>}, {<<HobbitRead>>, <<HobbitBadBegan>>},
                   {<<DailyRow(2023, 12, 30, 5000)>>,
                    <<DailyRow(2023, 12, 30, 5000), DailyRow(2024, 1, 2, 6667)>>},
                   PlotDisks)

NextIO == NextZsr \/ NextMain \/ Rerun
SpecIO == InitIO /\ [][NextIO]_vars

Init == InitIO \/ InitDur \/ InitLen \/ InitAgg \/ InitTrim \/ InitPlots \/ InitHeat
Next == NextZsr \/ NextPlots \/ Rerun
Spec == Init /\ [][Next]_vars

\* The rows of the exports in the order of the catalog
RawRows == ConcatFrom(csv, 1)

AfterAggregate == {"agg_table", "table_2022", "done"}
Normalized == pc \in {"derive", "aggregate"} \cup AfterAggregate
Derived == pc \in {"aggregate"} \cup AfterAggregate

----------------------------------------------------------------------------
(* The calendar itself, to say what a number of days means: the dates that *)
(* exist, and their order.                                                 *)

Calendar ==
    {dt \in (2023..2024) \X (1..12) \X (1..31) : ValidYMD(dt[1], dt[2], dt[3])}

NotAfter(a, b) ==
    \/ a[1] < b[1]
    \/ a[1] = b[1] /\ a[2] < b[2]
    \/ a[1] = b[1] /\ a[2] = b[2] /\ a[3] <= b[3]

\* The days from a to b, both counted
DaysFromTo(a, b) ==
    Cardinality({dt \in Calendar : NotAfter(a, dt) /\ NotAfter(dt, b)})

YMD(c) == <<c.y, c.m, c.d>>

BothSet(r) == r.began.k = "ts" /\ r.completed.k = "ts"

\* C1: after the derivation, a row with began and completed both set has as
\* its duration the whole days from began to completed plus one, that is the
\* number of calendar days from began to completed with both counted (at
\* least 1) when completed is not before began, and the mirror of it, 2 less
\* the number of days from completed to began, when it is before.
C1_Duration ==
    Derived =>
        \A i \in 1..Len(df_library.rows) :
            BothSet(df_library.rows[i]) =>
                LET b == YMD(RawRows[i].began)
                    c == YMD(RawRows[i].completed)
                    dur == df_library.rows[i].duration
                IN IF NotAfter(b, c)
                   THEN dur = DaysFromTo(b, c) /\ dur >= 1
                   ELSE dur = 2 - DaysFromTo(c, b)

\* A book begun on 28 February 2024 and completed on 1 March: three days
C1_Witness ==
    /\ Derived
    /\ \E i \in 1..Len(df_library.rows) :
        /\ RawRows[i].began = DateText(2024, 2, 28)
        /\ RawRows[i].completed = DateText(2024, 3, 1)
        /\ df_library.rows[i].duration = 3

\* C2: after the derivation, a row whose began or completed is missing has
\* the duration 0.
C2_MissingIsZero ==
    Derived =>
        \A i \in 1..Len(df_library.rows) :
            ~BothSet(df_library.rows[i]) => df_library.rows[i].duration = 0

\* A row without began beside a row with both dates
C2_Witness ==
    /\ Derived
    /\ \E i, j \in 1..Len(df_library.rows) :
        /\ RawRows[i].began = NaNDate
        /\ RawRows[i].completed = DateText(2024, 3, 1)
        /\ df_library.rows[i].duration = 0
        /\ BothSet(df_library.rows[j])

----------------------------------------------------------------------------
(* The aggregates, said from the catalog.                                  *)

\* The rows of the catalog that are Completed and of year text y
CompletedIn(y) ==
    {i \in 1..Len(df_library.rows) :
        /\ df_library.rows[i].status = Completed
        /\ df_library.rows[i].year_completed = y}

RECURSIVE SumAt(_, _)
SumAt(I, col) ==
    IF I = {} THEN 0
    ELSE LET i == CHOOSE x \in I : TRUE
         IN df_library.rows[i][col] + SumAt(I \ {i}, col)

CompletedYears ==
    {df_library.rows[i].year_completed : i \in
        {j \in 1..Len(df_library.rows) : df_library.rows[j].status = Completed}}
    \ {NanYear}

\* C3: the yearly aggregate table has one row for each year_completed of a
\* Completed catalog row other than "nan", and no other row; the count of a
\* row is the number of Completed catalog rows of its year.
C3_OneRowPerYear ==
    pc = "done" =>
        /\ {df_aggregates[j].year_completed : j \in 1..Len(df_aggregates)}
               = CompletedYears
        /\ Len(df_aggregates) = Cardinality(CompletedYears)
        /\ \A j \in 1..Len(df_aggregates) :
               df_aggregates[j].count
                   = Cardinality(CompletedIn(df_aggregates[j].year_completed))

\* A year with one Completed book, beside a Completed book without a year
\* and a year whose only book is in progress
C3_Witness ==
    /\ pc = "done"
    /\ Len(df_aggregates) = 1
    /\ df_aggregates[1].count = 1
    /\ \E i, j \in 1..Len(df_library.rows) :
        /\ df_library.rows[i].status = Completed
        /\ df_library.rows[i].year_completed.nan
        /\ df_library.rows[j].status = InProgress
        /\ ~df_library.rows[j].year_completed.nan
        /\ df_library.rows[j].year_completed
               # df_aggregates[1].year_completed

\* The scenario: two collections, one Completed book of 300 pages each, begun
\* on 2023-01-01 and completed on 2023-01-10
ScenarioRow ==
    [title |-> "Dune", length |-> NumLen(3000), status |-> Completed,
     began |-> DateText(2023, 1, 1), completed |-> DateText(2023, 1, 10),
     publish_date |-> NaNDate, added |-> NaNDate, ean_isbn13 |-> NaNIsbn]

Scenario ==
    /\ Len(RawRows) = 2
    /\ \A i \in 1..2 :
        [c \in RawColumns |-> RawRows[i][c]] = ScenarioRow
    /\ RawRows[1].library # RawRows[2].library

ScenarioHolds ==
    Scenario =>
        /\ Len(df_aggregates) = 1
        /\ df_aggregates[1].year_completed = YearText(2023, FALSE)
        /\ df_aggregates[1].count = 2
        /\ df_aggregates[1].sum_length = 600
        /\ df_aggregates[1].avg_length = 30000
        /\ df_aggregates[1].avg_duration = 1000

Abs(n) == IF n < 0 THEN -n ELSE n

\* C4 as stated: avg_length is sum_length divided by count and avg_duration
\* the mean of the durations (the float columns are in hundredths).
C4_ExactMeans ==
    pc = "done" =>
        /\ \A j \in 1..Len(df_aggregates) :
            LET a == df_aggregates[j]
                I == CompletedIn(a.year_completed)
            IN /\ a.sum_length = SumAt(I, "length")
               /\ a.avg_length * a.count = 100 * a.sum_length
               /\ a.avg_duration * a.count = 100 * SumAt(I, "duration")
        /\ ScenarioHolds

\* C4, amended: sum_length is the sum of length over the year's Completed
\* books of all collections, none dropped as a duplicate; avg_length is
\* sum_length / count and avg_duration the mean of the durations, each
\* rounded to two decimals (at most half a hundredth off); the scenario
\* yields the row "2023", 2, 600, 300.0, 10.0.
C4_RoundedMeans ==
    pc = "done" =>
        /\ \A j \in 1..Len(df_aggregates) :
            LET a == df_aggregates[j]
                I == CompletedIn(a.year_completed)
            IN /\ a.sum_length = SumAt(I, "length")
               /\ 2 * Abs(a.avg_length * a.count - 100 * a.sum_length)
                      <= a.count
               /\ 2 * Abs(a.avg_duration * a.count
                          - 100 * SumAt(I, "duration")) <= a.count
        /\ ScenarioHolds

C4_Witness ==
    /\ pc = "done"
    /\ Scenario
    /\ df_aggregates[1].sum_length = 600
    /\ df_aggregates[1].avg_duration = 1000

----------------------------------------------------------------------------
(* The cleanup, said from the exports.                                     *)

Restrict(r, cols) == [c \in cols |-> r[c]]

\* Row i of the catalog is among the rows listed as missing a length
Listed(i) ==
    \E j \in 1..Len(df_missing.rows) :
        df_missing.rows[j] = Restrict(df_library.rows[i], df_missing.columns)

RawLengthZero(i) ==
    \/ RawRows[i].length.k = "nan"
    \/ RawRows[i].length.k = "num" /\ RawRows[i].length.v10 = 0

Corrected(t) == \E k \in 1..Len(LengthCorrections) : LengthCorrections[k][1] = t

\* C7: after the cleanup, a row whose title has a length correction and
\* whose raw length is 0 or missing has the corrected length and is not
\* listed as missing a length; the rows listed are exactly the rows whose
\* length is 0 once the corrections are applied.
C7_CorrectionsThenMissing ==
    Normalized =>
        /\ \A i \in 1..Len(df_library.rows) :
            \A k \in 1..Len(LengthCorrections) :
                (df_library.rows[i].title = LengthCorrections[k][1]
                 /\ RawLengthZero(i))
                => /\ df_library.rows[i].length = LengthCorrections[k][2]
                   /\ ~Listed(i)
        /\ \A j \in 1..Len(df_missing.rows) : df_missing.rows[j].length = 0
        /\ \A i \in 1..Len(df_library.rows) :
            df_library.rows[i].length = 0 => Listed(i)
        /\ Len(df_missing.rows)
               = Cardinality({i \in 1..Len(df_library.rows) :
                                  df_library.rows[i].length = 0})

\* "The Hobbit" without a length gets its 317 pages and is not listed; "Dune"
\* without a length is
C7_Witness ==
    /\ Normalized
    /\ \E i, j \in 1..Len(df_library.rows) :
        /\ df_library.rows[i].title = "The Hobbit"
        /\ RawRows[i].length = NaNLen
        /\ df_library.rows[i].length = 317
        /\ ~Listed(i)
        /\ df_library.rows[j].title = "Dune"
        /\ df_library.rows[j].length = 0
        /\ Listed(j)
    /\ Len(df_missing.rows) = 1

\* C8 as stated: the run does not abort on a length, every length of the
\* cleaned catalog is an integer that is not negative, and a raw length that
\* is missing or no number is 0 there (where no correction gives the title a
\* length).
C8_LengthNonNegative ==
    /\ raised # "ValueError"
    /\ Normalized =>
        \A i \in 1..Len(df_library.rows) :
            /\ df_library.rows[i].length \in Nat
            /\ (RawRows[i].length.k \in {"nan", "txt"}
                /\ ~Corrected(df_library.rows[i].title))
               => df_library.rows[i].length = 0

Unparsable(c) == c.k = "txt" /\ ~ValidYMD(c.y, c.m, c.d)

\* C5 as stated, of zsr.py: once the cleanup has run, a began or completed
\* that does not parse has made the run raise; without one the run goes on,
\* and a publish_date or added that does not parse is null.
C5_BadDateRaises ==
    pc \notin {"import", "cleanup"} =>
        IF \E i \in 1..Len(RawRows) :
               Unparsable(RawRows[i].began) \/ Unparsable(RawRows[i].completed)
        THEN raised # ""
        ELSE /\ raised = ""
             /\ \A i \in 1..Len(df_library.rows) :
                 /\ Unparsable(RawRows[i].publish_date)
                        => df_library.rows[i].publish_date = NaT
                 /\ Unparsable(RawRows[i].added)
                        => df_library.rows[i].added = NaT

\* A text: a sequence of tokens, which a cell of a numeric column is not
IsText(x) == DOMAIN x \subseteq 1..Cardinality(DOMAIN x)

EndsInDotZero(t) == Len(t) > 0 /\ t[Len(t)] = ".0"

\* C6 as stated, of zsr.py: the cleaned catalog has the ISBN of every row, as
\* a text that does not end in ".0".
C6_IsbnKeptAsText ==
    Normalized =>
        /\ "ean_isbn13" \in df_library.columns
        /\ \A i \in 1..Len(df_library.rows) :
            /\ IsText(df_library.rows[i].ean_isbn13)
            /\ ~EndsInDotZero(df_library.rows[i].ean_isbn13)

----------------------------------------------------------------------------
(* The daily progress and the plots.                                       *)

OrdinalOf(c) == ToOrdinal(c.y, c.m, c.d)

Cleaned == pc \in {"years", "overlay", "heatmap", "books", "plotted"}

\* The year of the calendar last built
CalendarYear == YearOf(calendar_df[1].date)

\* The reading rows of a day
ReadOn(d) ==
    {i \in 1..Len(df_dailies.rows) :
        df_dailies.rows[i].date.ord = d /\ df_dailies.rows[i].daily_pages # 0}

C10_PercentInRange ==
    (books_table # <<>> \/ raised = "IndexError") =>
    /\ \A k \in 1..Len(dailies_csv) :
        /\ dailies_csv[k].percent_complete >= 0
        /\ dailies_csv[k].percent_complete <= 10000
        /\ dailies_csv[k].length = 0 => dailies_csv[k].percent_complete = 0
    /\ \A i \in 1..Len(books_table) :
        /\ books_table[i].percent_complete \in 0..100
        /\ books_table[i].color \in 0..(PaletteSize - 1)
    /\ raised # "IndexError"

----------------------------------------------------------------------------
(* The text of year_completed.                                             *)

\* C14 as stated: once the derived columns are there, year_completed of a row
\* with a completed date is the year of that date written as a whole number
\* ("2022", no ".0" after it), and of a row without one it is "nan", also in
\* a catalog that has rows of both kinds.
C14_YearCompleted ==
    Derived =>
        \A i \in 1..Len(df_library.rows) :
            df_library.rows[i].year_completed
                = IF Parses(RawRows[i].completed)
                  THEN YearText(RawRows[i].completed.y, FALSE)
                  ELSE NanYear

----------------------------------------------------------------------------
(* Whitespace around status, began and completed.                          *)

\* The date a cell holds once the whitespace around it is taken away
TrimmedDate(c) ==
    IF c.k \in {"txt", "pad"} /\ ValidYMD(c.y, c.m, c.d)
    THEN Timestamp(c.y, c.m, c.d) ELSE NaT

\* C15 as stated, of zsr.py: in the cleaned catalog a status typed with
\* whitespace around "Completed" is "Completed", and a began or completed
\* that is a date with whitespace around it is that date.
C15_Trimmed ==
    Normalized =>
        \A i \in 1..Len(df_library.rows) :
            /\ df_library.rows[i].status = <<"Completed">>
            /\ df_library.rows[i].began = TrimmedDate(RawRows[i].began)
            /\ df_library.rows[i].completed = TrimmedDate(RawRows[i].completed)

----------------------------------------------------------------------------
(* What the length corrections touch.                                      *)

\* The catalog as the casts leave it, before the corrections
BeforeCorrections ==
    CastTypes(DropColumns([columns |-> RawColumns \cup {"library"},
                           rows |-> RawRows])).rows

CorrectionOf(t) ==
    LengthCorrections[CHOOSE k \in 1..Len(LengthCorrections) :
                          LengthCorrections[k][1] = t][2]

\* C16: right after the cleanup, a row whose title is exactly a key of the
\* corrections is the row the casts left with the key's length in place of
\* its own, whatever that was and whichever collection it is from; a row with
\* any other title is the row the casts left; and the corrections applied
\* once more give the same catalog.
C16_OnlyLengthOfKeyedTitles ==
    pc = "derive" =>
        /\ Len(df_library.rows) = Len(BeforeCorrections)
        /\ \A i \in 1..Len(df_library.rows) :
            df_library.rows[i]
                = IF Corrected(BeforeCorrections[i].title)
                  THEN [BeforeCorrections[i] EXCEPT
                           !.length = CorrectionOf(BeforeCorrections[i].title)]
                  ELSE BeforeCorrections[i]
        /\ ApplyCorrections(df_library) = df_library

\* "The Hobbit" of 300.5 pages in one collection is given its 317; "the
\* hobbit" in another keeps its 300
C16_Witness ==
    /\ pc = "derive"
    /\ Len(df_library.rows) = 2
    /\ RawRows[1].title = "The Hobbit"
    /\ RawRows[1].length = NumLen(3005)
    /\ df_library.rows[1].length = 317
    /\ df_library.rows[2].title = "the hobbit"
    /\ df_library.rows[2].length = 300
    /\ df_library.rows[1].library # df_library.rows[2].library

----------------------------------------------------------------------------
(* The cells of the heat map.                                              *)

\* 1 January 2024 was a Monday
IsMonday(ord) == (ord - ToOrdinal(2024, 1, 1)) % 7 = 0

\* C17: when the heat map of a year has been drawn, first_monday is a Monday
\* not after 1 January, the calendar has a row for each of the 365 or 366
\* days of the year, every row has a week of 1 or more and a day from 0 to 6,
\* and no two rows have the same week and day.
C17_HeatmapCells ==
    pc = "books" =>
        LET year == Head(years) IN
        /\ IsMonday(first_monday(year))
        /\ first_monday(year) <= ToOrdinal(year, 1, 1)
        /\ Len(calendar_df) = IF IsLeap(year) THEN 366 ELSE 365
        /\ \A i \in 1..Len(calendar_df) :
            /\ calendar_df[i].week >= 1
            /\ calendar_df[i].day \in 0..6
        /\ Cardinality({<<calendar_df[i].week, calendar_df[i].day>> :
                            i \in 1..Len(calendar_df)}) = Len(calendar_df)

\* 2028 has 366 days and begins on a Saturday: 1 January is in week 1 on day
\* 5, and 31 December, a Sunday, in week 53 on day 6
C17_Witness ==
    /\ pc = "books"
    /\ Head(years) = 2028
    /\ Len(calendar_df) = 366
    /\ calendar_df[1].week = 1
    /\ calendar_df[1].day = 5
    /\ calendar_df[366].week = 53
    /\ calendar_df[366].day = 6

----------------------------------------------------------------------------
(* A second run, input files that are absent, figures that cannot be       *)
(* written.                                                                *)

ConfiguredInputs ==
    IF run.script = "zsr" THEN {Libraries[i] : i \in 1..Len(Libraries)}
    ELSE {"dailies", "library"}

RawCatalog == IF run.script = "zsr" THEN RawRows ELSE library_csv

\* What the specification calls a fatal error
FatalError ==
    \/ ConfiguredInputs \cap disk.absent # {}
    \/ \E i \in 1..Len(RawCatalog) :
           Unparsable(RawCatalog[i].began) \/ Unparsable(RawCatalog[i].completed)

\* The figures written in the run that is under way
WritesOfRun ==
    SubSeq(saved, (IF run.n = 2 THEN first.writes ELSE 0) + 1, Len(saved))

\* C12 as stated: in a run with an input file absent or with a began or
\* completed that is no date, no figure is ever written, and the run, when
\* it ends, has aborted.
C12_NoWriteWithFatalError ==
    FatalError =>
        /\ WritesOfRun = <<>>
        /\ pc \in Ended => pc = "aborted"

\* The figures a run is to write
ExpectedFigures ==
    IF run.script = "zsr" THEN {<<"agg_books_by_year">>, <<"2022books">>}
    ELSE {FileName(kind, YearOf(df_dailies.rows[i].date.ord), <<>>) :
              kind \in {"overlay-chart", "daily-pages", "books-table"},
              i \in 1..Len(df_dailies.rows)}

\* C13 as stated: a run that ended with no error but a failed write has
\* written every figure that can be written: the write that failed did not
\* keep the script from the writes after it.
C13_WritesGoOn ==
    (pc \in Ended /\ raised \in {"", "OSError"}) =>
        \A f \in ExpectedFigures :
            f[1] \notin disk.unwritable
                => \E i \in 1..Len(WritesOfRun) : WritesOfRun[i] = f

====
